---- MODULE Spec2Model ----
(***************************************************************************)
(* The xterm terminal driver of Tickit (src/src/termdriver-xterm.c) as a   *)
(* state machine.  One driver instance: its mode and capability bits, the  *)
(* terminal width the core holds, and, for the call in progress, the       *)
(* arguments, the writes it made and its return value.                     *)
(*                                                                         *)
(* A write is one call of tickit_termdrv_write_str / _write_strf; its      *)
(* bytes are a string in which the three letters ESC stand for the single  *)
(* byte 0x1b.  out is the sequence of the writes of the call in progress,  *)
(* so "zero bytes" is out = <<>>.                                          *)
(***************************************************************************)
EXTENDS Integers, Sequences, FiniteSets, TLC

VARIABLES
  mode,       \* xd->mode: altscreen, cursorvis, cursorblink, mouse, keypad
  cap,        \* xd->cap: bce, slrm
  term_cols,  \* the core's terminal width (tickit_term_get_size)
  call,       \* the driver call in progress, [op |-> "none"] between calls
  out,        \* the writes of the call in progress, in order
  ret,        \* <<r>> when the call returned r, <<>> for a void call
  pre,        \* history: mode, cap, applied, requested at entry of the call,
              \* and whether the call before it was stop
  applied,    \* history: what the terminal was last told, per mode
  requested   \* history: truth value last requested per control of RequestCtls

vars == <<mode, cap, term_cols, call, out, ret, pre, applied, requested>>

-----------------------------------------------------------------------------
(* Bounds of the model *)

MaxValue == 2
MaxShift == 2
MaxLines == 2
MaxCols  == 3
MaxLeft  == 1
MaxTop   == 1
MaxCount == 130
MaxCoord == 10

-----------------------------------------------------------------------------
(* printf's %d *)

Digit(d) ==
  CASE d = 0 -> "0" [] d = 1 -> "1" [] d = 2 -> "2" [] d = 3 -> "3"
    [] d = 4 -> "4" [] d = 5 -> "5" [] d = 6 -> "6" [] d = 7 -> "7"
    [] d = 8 -> "8" [] d = 9 -> "9"

RECURSIVE DecNat(_)
DecNat(n) == IF n < 10 THEN Digit(n) ELSE DecNat(n \div 10) \o Digit(n % 10)

Dec(n) == IF n < 0 THEN "-" \o DecNat(-n) ELSE DecNat(n)

(* C truth: !!v and !v *)
Bool(v) == IF v # 0 THEN 1 ELSE 0

Not(v) == IF v # 0 THEN 0 ELSE 1

(* tickit_termdrv_write_str(ttd, str, len): every call site passes the     *)
(* length of str, or 0 which the core takes as strlen(str).                *)
write_str(o, str) == Append(o, str)

(* tickit_termdrv_write_strf(ttd, fmt, ...): str is the formatted text.    *)
write_strf(o, str) == Append(o, str)

-----------------------------------------------------------------------------
(* Control identifiers (TickitTermCtl) *)

IntCtls == {"ALTSCREEN", "CURSORVIS", "CURSORBLINK", "MOUSE", "CURSORSHAPE",
            "KEYPAD_APP"}

StrCtls == {"ICON_TEXT", "TITLE_TEXT", "ICONTITLE_TEXT"}

AllCtls == IntCtls \cup StrCtls \cup {"COLORS"}

DedupCtls == {"ALTSCREEN", "CURSORVIS", "MOUSE", "KEYPAD_APP"}

(* the controls whose last requested value the history keeps *)
RequestCtls == DedupCtls \cup {"CURSORBLINK"}

-----------------------------------------------------------------------------
(* static TickitTermDriver *new(): the fields it assigns; keypad and       *)
(* cursorblink are left as malloc returned them.                           *)

new(ti_ok, ti_bce, uninit_cursorblink, uninit_keypad) ==
  [mode |-> [altscreen   |-> 0,
             cursorvis   |-> 1,
             cursorblink |-> uninit_cursorblink,
             mouse       |-> 0,
             keypad      |-> uninit_keypad],
   cap  |-> [bce  |-> IF ti_ok THEN ti_bce ELSE 1,
             slrm |-> 0]]

-----------------------------------------------------------------------------
(* setctl_int *)

setctl_int_shape_stores(xd, o, ctl, value) ==
  CASE ctl = "ALTSCREEN" ->
         IF Not(xd.mode.altscreen) = Not(value)
         THEN [xd |-> xd, out |-> o, ret |-> 1]
         ELSE [xd  |-> [xd EXCEPT !.mode.altscreen = Bool(value)],
               out |-> write_str(o, IF value # 0 THEN "ESC[?1049h" ELSE "ESC[?1049l"),
               ret |-> 1]
    [] ctl = "CURSORVIS" ->
         IF Not(xd.mode.cursorvis) = Not(value)
         THEN [xd |-> xd, out |-> o, ret |-> 1]
         ELSE [xd  |-> [xd EXCEPT !.mode.cursorvis = Bool(value)],
               out |-> write_str(o, IF value # 0 THEN "ESC[?25h" ELSE "ESC[?25l"),
               ret |-> 1]
    [] ctl = "CURSORBLINK" ->
         [xd  |-> [xd EXCEPT !.mode.cursorblink = Bool(value)],
          out |-> write_str(o, IF value # 0 THEN "ESC[?12h" ELSE "ESC[?12l"),
          ret |-> 1]
    [] ctl = "MOUSE" ->
         IF Not(xd.mode.mouse) = Not(value)
         THEN [xd |-> xd, out |-> o, ret |-> 1]
         ELSE [xd  |-> [xd EXCEPT !.mode.mouse = Bool(value)],
               out |-> write_str(o, IF value # 0 THEN "ESC[?1002hESC[?1006h"
                                                  ELSE "ESC[?1002lESC[?1006l"),
               ret |-> 1]
    [] ctl = "CURSORSHAPE" ->
         [xd  |-> [xd EXCEPT !.mode.cursorblink = 0],
          out |-> write_strf(o, "ESC[" \o
                     Dec(value * 2 + (IF xd.mode.cursorblink # 0 THEN -1 ELSE 0))
                     \o " q"),
          ret |-> 1]
    [] ctl = "KEYPAD_APP" ->
         IF Not(xd.mode.keypad) = Not(value)
         THEN [xd |-> xd, out |-> o, ret |-> 1]
         ELSE [xd  |-> xd,
               out |-> write_strf(o, IF value # 0 THEN "ESC=" ELSE "ESC>"),
               ret |-> 1]
    [] OTHER -> [xd |-> xd, out |-> o, ret |-> 0]

setctl_int_blink_dedup(xd, o, ctl, value) ==
  CASE ctl = "ALTSCREEN" ->
         IF Not(xd.mode.altscreen) = Not(value)
         THEN [xd |-> xd, out |-> o, ret |-> 1]
         ELSE [xd  |-> [xd EXCEPT !.mode.altscreen = Bool(value)],
               out |-> write_str(o, IF value # 0 THEN "ESC[?1049h" ELSE "ESC[?1049l"),
               ret |-> 1]
    [] ctl = "CURSORVIS" ->
         IF Not(xd.mode.cursorvis) = Not(value)
         THEN [xd |-> xd, out |-> o, ret |-> 1]
         ELSE [xd  |-> [xd EXCEPT !.mode.cursorvis = Bool(value)],
               out |-> write_str(o, IF value # 0 THEN "ESC[?25h" ELSE "ESC[?25l"),
               ret |-> 1]
    [] ctl = "CURSORBLINK" ->
         IF Not(xd.mode.cursorblink) = Not(value)
         THEN [xd |-> xd, out |-> o, ret |-> 1]
         ELSE [xd  |-> [xd EXCEPT !.mode.cursorblink = Bool(value)],
               out |-> write_str(o, IF value # 0 THEN "ESC[?12h" ELSE "ESC[?12l"),
               ret |-> 1]
    [] ctl = "MOUSE" ->
         IF Not(xd.mode.mouse) = Not(value)
         THEN [xd |-> xd, out |-> o, ret |-> 1]
         ELSE [xd  |-> [xd EXCEPT !.mode.mouse = Bool(value)],
               out |-> write_str(o, IF value # 0 THEN "ESC[?1002hESC[?1006h"
                                                  ELSE "ESC[?1002lESC[?1006l"),
               ret |-> 1]
    [] ctl = "CURSORSHAPE" ->
         [xd  |-> xd,
          out |-> write_strf(o, "ESC[" \o
                     Dec(value * 2 + (IF xd.mode.cursorblink # 0 THEN -1 ELSE 0))
                     \o " q"),
          ret |-> 1]
    [] ctl = "KEYPAD_APP" ->
         IF Not(xd.mode.keypad) = Not(value)
         THEN [xd |-> xd, out |-> o, ret |-> 1]
         ELSE [xd  |-> xd,
               out |-> write_strf(o, IF value # 0 THEN "ESC=" ELSE "ESC>"),
               ret |-> 1]
    [] OTHER -> [xd |-> xd, out |-> o, ret |-> 0]

setctl_int(xd, o, ctl, value) ==
  CASE ctl = "ALTSCREEN" ->
         IF Not(xd.mode.altscreen) = Not(value)
         THEN [xd |-> xd, out |-> o, ret |-> 1]
         ELSE [xd  |-> [xd EXCEPT !.mode.altscreen = Bool(value)],
               out |-> write_str(o, IF value # 0 THEN "ESC[?1049h" ELSE "ESC[?1049l"),
               ret |-> 1]
    [] ctl = "CURSORVIS" ->
         IF Not(xd.mode.cursorvis) = Not(value)
         THEN [xd |-> xd, out |-> o, ret |-> 1]
         ELSE [xd  |-> [xd EXCEPT !.mode.cursorvis = Bool(value)],
               out |-> write_str(o, IF value # 0 THEN "ESC[?25h" ELSE "ESC[?25l"),
               ret |-> 1]
    [] ctl = "CURSORBLINK" ->
         [xd  |-> [xd EXCEPT !.mode.cursorblink = Bool(value)],
          out |-> write_str(o, IF value # 0 THEN "ESC[?12h" ELSE "ESC[?12l"),
          ret |-> 1]
    [] ctl = "MOUSE" ->
         IF Not(xd.mode.mouse) = Not(value)
         THEN [xd |-> xd, out |-> o, ret |-> 1]
         ELSE [xd  |-> [xd EXCEPT !.mode.mouse = Bool(value)],
               out |-> write_str(o, IF value # 0 THEN "ESC[?1002hESC[?1006h"
                                                  ELSE "ESC[?1002lESC[?1006l"),
               ret |-> 1]
    [] ctl = "CURSORSHAPE" ->
         [xd  |-> xd,
          out |-> write_strf(o, "ESC[" \o
                     Dec(value * 2 + (IF xd.mode.cursorblink # 0 THEN -1 ELSE 0))
                     \o " q"),
          ret |-> 1]
    [] ctl = "KEYPAD_APP" ->
         IF Not(xd.mode.keypad) = Not(value)
         THEN [xd |-> xd, out |-> o, ret |-> 1]
         ELSE [xd  |-> xd,
               out |-> write_strf(o, IF value # 0 THEN "ESC=" ELSE "ESC>"),
               ret |-> 1]
    [] OTHER -> [xd |-> xd, out |-> o, ret |-> 0]

-----------------------------------------------------------------------------
(* setctl_str *)

setctl_str_handled(o, ctl, value) ==
  CASE ctl = "ICON_TEXT" ->
         [out |-> write_strf(o, "ESC]1;" \o value \o "ESC\\"), ret |-> 1]
    [] ctl = "TITLE_TEXT" ->
         [out |-> write_strf(o, "ESC]2;" \o value \o "ESC\\"), ret |-> 1]
    [] ctl = "ICONTITLE_TEXT" ->
         [out |-> write_strf(o, "ESC]0;" \o value \o "ESC\\"), ret |-> 1]
    [] OTHER -> [out |-> o, ret |-> 1]

setctl_str(o, ctl, value) ==
  CASE ctl = "ICON_TEXT" ->
         [out |-> write_strf(o, "ESC]1;" \o value \o "ESC\\"), ret |-> 1]
    [] ctl = "TITLE_TEXT" ->
         [out |-> write_strf(o, "ESC]2;" \o value \o "ESC\\"), ret |-> 1]
    [] ctl = "ICONTITLE_TEXT" ->
         [out |-> write_strf(o, "ESC]0;" \o value \o "ESC\\"), ret |-> 1]
    [] OTHER -> [out |-> o, ret |-> 0]

-----------------------------------------------------------------------------
(* start *)

start(o) == write_strf(write_strf(o, "ESC[?69h"), "ESC[?69$p")

-----------------------------------------------------------------------------
(* gotkey: key is the event with termkey_interpret_modereport's result *)

gotkey_unlatch(xd, key) ==
  IF key.type = "MODEREPORT" /\ key.initial = "?" /\ key.mode = 69
  THEN [xd EXCEPT !.cap.slrm = IF key.value = 1 \/ key.value = 2 THEN 1 ELSE 0]
  ELSE xd

gotkey(xd, key) ==
  IF key.type = "MODEREPORT"
  THEN IF key.initial = "?"
       THEN CASE key.mode = 69 ->
                   IF key.value = 1 \/ key.value = 2
                   THEN [xd EXCEPT !.cap.slrm = 1]
                   ELSE xd
              [] OTHER -> xd
       ELSE xd
  ELSE xd

-----------------------------------------------------------------------------
(* stop *)

stop_reordered(xd, o) ==
  LET s0 == [xd |-> xd, out |-> o, ret |-> 1]
      s1 == IF s0.xd.mode.mouse # 0
            THEN setctl_int(s0.xd, s0.out, "MOUSE", 0) ELSE s0
      s2 == IF s1.xd.mode.altscreen # 0
            THEN setctl_int(s1.xd, s1.out, "ALTSCREEN", 0) ELSE s1
      s3 == IF s2.xd.mode.cursorvis = 0
            THEN setctl_int(s2.xd, s2.out, "CURSORVIS", 1) ELSE s2
      s4 == IF s3.xd.mode.keypad # 0
            THEN setctl_int(s3.xd, s3.out, "KEYPAD_APP", 0) ELSE s3
  IN  [xd |-> s4.xd, out |-> s4.out]

stop(xd, o) ==
  LET s0 == [xd |-> xd, out |-> o, ret |-> 1]
      s1 == IF s0.xd.mode.mouse # 0
            THEN setctl_int(s0.xd, s0.out, "MOUSE", 0) ELSE s0
      s2 == IF s1.xd.mode.cursorvis = 0
            THEN setctl_int(s1.xd, s1.out, "CURSORVIS", 1) ELSE s1
      s3 == IF s2.xd.mode.altscreen # 0
            THEN setctl_int(s2.xd, s2.out, "ALTSCREEN", 0) ELSE s2
      s4 == IF s3.xd.mode.keypad # 0
            THEN setctl_int(s3.xd, s3.out, "KEYPAD_APP", 0) ELSE s3
  IN  [xd |-> s4.xd, out |-> s4.out]

-----------------------------------------------------------------------------
(* goto_abs *)

goto_abs_anycol(o, line, col) ==
  IF line # -1 /\ col >= 0
  THEN write_strf(o, "ESC[" \o Dec(line + 1) \o ";" \o Dec(col + 1) \o "H")
  ELSE IF line # -1
  THEN write_strf(o, "ESC[" \o Dec(line + 1) \o "d")
  ELSE IF col > 0
  THEN write_strf(o, "ESC[" \o Dec(col + 1) \o "G")
  ELSE IF col # -1
  THEN write_str(o, "ESC[G")
  ELSE o

goto_abs(o, line, col) ==
  IF line # -1 /\ col > 0
  THEN write_strf(o, "ESC[" \o Dec(line + 1) \o ";" \o Dec(col + 1) \o "H")
  ELSE IF line # -1 /\ col = 0
  THEN write_strf(o, "ESC[" \o Dec(line + 1) \o "H")
  ELSE IF line # -1
  THEN write_strf(o, "ESC[" \o Dec(line + 1) \o "d")
  ELSE IF col > 0
  THEN write_strf(o, "ESC[" \o Dec(col + 1) \o "G")
  ELSE IF col # -1
  THEN write_str(o, "ESC[G")
  ELSE o

-----------------------------------------------------------------------------
(* scrollrect *)

(* the insert/delete character command of one row *)
scrollrect_chars(o, rightward) ==
  IF rightward > 1
  THEN write_strf(o, "ESC[" \o Dec(rightward) \o "@")
  ELSE IF rightward = 1
  THEN write_str(o, "ESC[@")
  ELSE IF rightward = -1
  THEN write_str(o, "ESC[P")
  ELSE IF rightward < -1
  THEN write_strf(o, "ESC[" \o Dec(-rightward) \o "P")
  ELSE o

(* the loop over the rows, from row line on; the margin reset is inside it *)
RECURSIVE scrollrect_rows(_, _, _, _, _, _, _, _)
scrollrect_rows(o, line, top, left, lines, cols, rightward, tcols) ==
  IF line < top + lines
  THEN LET o1 == goto_abs(o, line, left)
           o2 == scrollrect_chars(o1, rightward)
           o3 == IF left + cols < tcols THEN write_strf(o2, "ESC[s") ELSE o2
       IN  scrollrect_rows(o3, line + 1, top, left, lines, cols, rightward, tcols)
  ELSE o

(* the condition of the first strategy *)
scrollrect_use_chars_noslrm(xd, left, lines, cols, downward, tcols) ==
  /\ \/ lines = 1
     \/ left + cols = tcols
  /\ downward = 0

scrollrect_use_chars(xd, left, lines, cols, downward, tcols) ==
  /\ \/ (xd.cap.slrm # 0 /\ lines = 1)
     \/ left + cols = tcols
  /\ downward = 0

(* the first strategy: insert/delete characters in each row *)
scrollrect_by_chars(o, top, left, lines, cols, rightward, tcols) ==
  LET o1 == IF left + cols < tcols
            THEN write_strf(o, "ESC[;" \o Dec(left + cols) \o "s")
            ELSE o
  IN  scrollrect_rows(o1, top, top, left, lines, cols, rightward, tcols)

(* the condition of the second strategy *)
scrollrect_use_region_or(xd, left, cols, rightward, tcols) ==
  \/ xd.cap.slrm # 0
  \/ left = 0
  \/ (cols = tcols /\ rightward = 0)

scrollrect_use_region_anyshift(xd, left, cols, rightward, tcols) ==
  \/ xd.cap.slrm # 0
  \/ (left = 0 /\ cols = tcols)

scrollrect_use_region(xd, left, cols, rightward, tcols) ==
  \/ xd.cap.slrm # 0
  \/ (left = 0 /\ cols = tcols /\ rightward = 0)

(* the second strategy: scroll region and margins, insert/delete lines and columns *)
scrollrect_by_region_noreset(o, top, left, lines, cols, downward, rightward, tcols) ==
  LET o1 == write_strf(o, "ESC[" \o Dec(top + 1) \o ";" \o Dec(top + lines) \o "r")
      o2 == IF left > 0 \/ left + cols < tcols
            THEN write_strf(o1, "ESC[" \o Dec(left + 1) \o ";" \o Dec(left + cols) \o "s")
            ELSE o1
      o3 == goto_abs(o2, top, left)
      o4 == IF downward > 1
            THEN write_strf(o3, "ESC[" \o Dec(downward) \o "M")
            ELSE IF downward = 1
            THEN write_str(o3, "ESC[M")
            ELSE IF downward = -1
            THEN write_str(o3, "ESC[L")
            ELSE IF downward < -1
            THEN write_strf(o3, "ESC[" \o Dec(-downward) \o "L")
            ELSE o3
      o5 == IF rightward > 1
            THEN write_strf(o4, "ESC[" \o Dec(rightward) \o "'~")
            ELSE IF rightward = 1
            THEN write_str(o4, "ESC['~")
            ELSE IF rightward = -1
            THEN write_str(o4, "ESC['}")
            ELSE o4
      o6 == IF rightward < -1
            THEN write_strf(o5, "ESC[" \o Dec(-rightward) \o "'}")
            ELSE o5
      o7 == write_str(o6, "ESC[r")
  IN  o7

scrollrect_by_region(o, top, left, lines, cols, downward, rightward, tcols) ==
  LET o1 == write_strf(o, "ESC[" \o Dec(top + 1) \o ";" \o Dec(top + lines) \o "r")
      o2 == IF left > 0 \/ left + cols < tcols
            THEN write_strf(o1, "ESC[" \o Dec(left + 1) \o ";" \o Dec(left + cols) \o "s")
            ELSE o1
      o3 == goto_abs(o2, top, left)
      o4 == IF downward > 1
            THEN write_strf(o3, "ESC[" \o Dec(downward) \o "M")
            ELSE IF downward = 1
            THEN write_str(o3, "ESC[M")
            ELSE IF downward = -1
            THEN write_str(o3, "ESC[L")
            ELSE IF downward < -1
            THEN write_strf(o3, "ESC[" \o Dec(-downward) \o "L")
            ELSE o3
      o5 == IF rightward > 1
            THEN write_strf(o4, "ESC[" \o Dec(rightward) \o "'~")
            ELSE IF rightward = 1
            THEN write_str(o4, "ESC['~")
            ELSE IF rightward = -1
            THEN write_str(o4, "ESC['}")
            ELSE o4
      o6 == IF rightward < -1
            THEN write_strf(o5, "ESC[" \o Dec(-rightward) \o "'}")
            ELSE o5
      o7 == write_str(o6, "ESC[r")
      o8 == IF left > 0 \/ left + cols < tcols
            THEN write_str(o7, "ESC[s")
            ELSE o7
  IN  o8

scrollrect(xd, tcols, o, top, left, lines, cols, downward, rightward) ==
  IF downward = 0 /\ rightward = 0
  THEN [out |-> o, ret |-> 1]
  ELSE IF scrollrect_use_chars(xd, left, lines, cols, downward, tcols)
  THEN [out |-> scrollrect_by_chars(o, top, left, lines, cols, rightward, tcols),
        ret |-> 1]
  ELSE IF scrollrect_use_region(xd, left, cols, rightward, tcols)
  THEN [out |-> scrollrect_by_region(o, top, left, lines, cols, downward,
                                     rightward, tcols),
        ret |-> 1]
  ELSE [out |-> o, ret |-> 0]

-----------------------------------------------------------------------------
(* print *)

print(o, str) == write_str(o, str)

-----------------------------------------------------------------------------
(* move_rel *)

move_rel(o, downward, rightward) ==
  LET o1 == IF downward > 1
            THEN write_strf(o, "ESC[" \o Dec(downward) \o "B")
            ELSE IF downward = 1
            THEN write_str(o, "ESC[B")
            ELSE IF downward = -1
            THEN write_str(o, "ESC[A")
            ELSE IF downward < -1
            THEN write_strf(o, "ESC[" \o Dec(-downward) \o "A")
            ELSE o
  IN  IF rightward > 1
      THEN write_strf(o1, "ESC[" \o Dec(rightward) \o "C")
      ELSE IF rightward = 1
      THEN write_str(o1, "ESC[C")
      ELSE IF rightward = -1
      THEN write_str(o1, "ESC[D")
      ELSE IF rightward < -1
      THEN write_strf(o1, "ESC[" \o Dec(-rightward) \o "D")
      ELSE o1

-----------------------------------------------------------------------------
(* erasech; reverse is tickit_pen_get_bool_attr(current pen, REVERSE) *)

(* memset(spaces, ' ', n) *)
RECURSIVE Spaces(_)
Spaces(n) == IF n <= 0 THEN "" ELSE Spaces(n - 1) \o " "

(* the while loop: full chunks while count > 64; gives the count left *)
RECURSIVE erasech_chunks(_, _)
erasech_chunks(o, count) ==
  IF count > 64
  THEN erasech_chunks(write_str(o, SubSeq(Spaces(64), 1, 64)), count - 64)
  ELSE [out |-> o, count |-> count]

erasech_noreverse(xd, reverse, o, count, moveend) ==
  IF count < 1
  THEN o
  ELSE IF xd.cap.bce # 0
  THEN LET o1 == IF count = 1
                 THEN write_str(o, "ESC[X")
                 ELSE write_strf(o, "ESC[" \o Dec(count) \o "X")
       IN  IF moveend = 1 THEN move_rel(o1, 0, count) ELSE o1
  ELSE LET c  == erasech_chunks(o, count)
           o1 == write_str(c.out, SubSeq(Spaces(64), 1, c.count))
       IN  IF moveend = 0 THEN move_rel(o1, 0, 0 - c.count) ELSE o1

erasech(xd, reverse, o, count, moveend) ==
  IF count < 1
  THEN o
  ELSE IF xd.cap.bce # 0 /\ reverse = 0
  THEN LET o1 == IF count = 1
                 THEN write_str(o, "ESC[X")
                 ELSE write_strf(o, "ESC[" \o Dec(count) \o "X")
       IN  IF moveend = 1 THEN move_rel(o1, 0, count) ELSE o1
  ELSE LET c  == erasech_chunks(o, count)
           o1 == write_str(c.out, SubSeq(Spaces(64), 1, c.count))
       IN  IF moveend = 0 THEN move_rel(o1, 0, 0 - c.count) ELSE o1

-----------------------------------------------------------------------------
(* clear (ttd_clear) *)

clear(o) == write_strf(o, "ESC[2J")

-----------------------------------------------------------------------------
(* chpen.  A pen gives each attribute <<>> (the pen has not got it) or     *)
(* <<v>> (its value: a colour index or -1, an alt-font or -1, a boolean).  *)

(* TickitPenAttr, in the order of the enum *)
PenAttrs == <<"fg", "bg", "bold", "under", "italic", "reverse", "strike",
              "altfont">>

sgr_onoff ==
  [fg      |-> [on |-> 30, off |-> 39],
   bg      |-> [on |-> 40, off |-> 49],
   bold    |-> [on |->  1, off |-> 22],
   under   |-> [on |->  4, off |-> 24],
   italic  |-> [on |->  3, off |-> 23],
   reverse |-> [on |->  7, off |-> 27],
   strike  |-> [on |->  9, off |-> 29],
   altfont |-> [on |-> 10, off |-> 10]]

(* p | 0x80000000 and p & 0x7fffffff on a 32-bit two's complement int *)
SubParam(p) == IF p >= 0 THEN (p - 2147483647) - 1 ELSE p

MaskParam(p) == IF p < 0 THEN (p + 2147483647) + 1 ELSE p

(* the switch: the parameters of one attribute of delta *)
chpen_value_offbyone(attr, val) ==
  LET onoff == sgr_onoff[attr]
  IN  CASE attr \in {"fg", "bg"} ->
             IF val < 0 THEN <<onoff.off>>
             ELSE IF val <= 8 THEN <<onoff.on + val>>
             ELSE IF val < 16 THEN <<onoff.on + 60 + val - 8>>
             ELSE <<SubParam(onoff.on + 8), SubParam(5), val>>
        [] attr = "altfont" ->
             IF val < 0 \/ val >= 10 THEN <<onoff.off>>
             ELSE <<onoff.on + val>>
        [] OTHER ->
             IF val # 0 THEN <<onoff.on>> ELSE <<onoff.off>>

chpen_value(attr, val) ==
  LET onoff == sgr_onoff[attr]
  IN  CASE attr \in {"fg", "bg"} ->
             IF val < 0 THEN <<onoff.off>>
             ELSE IF val < 8 THEN <<onoff.on + val>>
             ELSE IF val < 16 THEN <<onoff.on + 60 + val - 8>>
             ELSE <<SubParam(onoff.on + 8), SubParam(5), val>>
        [] attr = "altfont" ->
             IF val < 0 \/ val >= 10 THEN <<onoff.off>>
             ELSE <<onoff.on + val>>
        [] OTHER ->
             IF val # 0 THEN <<onoff.on>> ELSE <<onoff.off>>

(* the loop over the attributes, from the i-th on *)
RECURSIVE chpen_params(_, _, _)
chpen_params(params, i, delta) ==
  IF i > Len(PenAttrs)
  THEN params
  ELSE IF delta[PenAttrs[i]] = <<>>
  THEN chpen_params(params, i + 1, delta)
  ELSE chpen_params(params \o chpen_value(PenAttrs[i], delta[PenAttrs[i]][1]),
                    i + 1, delta)

(* tickit_pen_is_nondefault *)
tickit_pen_is_nondefault(pen) ==
  \E i \in 1 .. Len(PenAttrs) :
    LET a == PenAttrs[i]
    IN  /\ pen[a] # <<>>
        /\ IF a \in {"fg", "bg", "altfont"} THEN pen[a][1] # -1
           ELSE pen[a][1] # 0

(* size_t len: ESC [ ... m *)
RECURSIVE chpen_len(_, _, _)
chpen_len(len, i, params) ==
  IF i > Len(params)
  THEN IF Len(params) > 0 THEN len - 1 ELSE len
  ELSE chpen_len(len + Len(Dec(MaskParam(params[i]))) + 1, i + 1, params)

(* the sprintf calls that fill buffer *)
RECURSIVE chpen_buffer(_, _, _)
chpen_buffer(s, i, params) ==
  IF i < Len(params)
  THEN chpen_buffer(s \o Dec(MaskParam(params[i])) \o ";", i + 1, params)
  ELSE IF Len(params) > 0
  THEN s \o Dec(MaskParam(params[Len(params)])) \o "m"
  ELSE s \o "m"

(* the first len bytes of a buffer that begins with the byte ESC *)
Bytes(buffer, len) == SubSeq(buffer, 1, len + 2)

chpen_noreset(o, delta, final) ==
  LET params == chpen_params(<<>>, 1, delta)
  IN  IF Len(params) = 0
      THEN o
      ELSE write_str(o, Bytes(chpen_buffer("ESC[", 1, params),
                              chpen_len(3, 1, params)))

chpen(o, delta, final) ==
  LET params == chpen_params(<<>>, 1, delta)
  IN  IF Len(params) = 0
      THEN o
      ELSE LET kept == IF ~tickit_pen_is_nondefault(final) THEN <<>> ELSE params
           IN  write_str(o, Bytes(chpen_buffer("ESC[", 1, kept),
                                  chpen_len(3, 1, kept)))

-----------------------------------------------------------------------------
(* History: what the writes tell the terminal.  For each restorable mode   *)
(* the value of the last sequence written for it (<<>> while none was),    *)
(* and whether the scroll region and the left/right margins are set.       *)

IsCSI(w, final) ==
  /\ Len(w) > 5
  /\ SubSeq(w, 1, 4) = "ESC["
  /\ SubSeq(w, Len(w), Len(w)) = final

IsRegionSet(w) == IsCSI(w, "r")

IsRegionReset(w) == w = "ESC[r"

IsMarginSet(w) == IsCSI(w, "s")

IsMarginReset(w) == w = "ESC[s"

TermApply(t, w) ==
  CASE w = "ESC[?1049h" -> [t EXCEPT !.altscreen = <<1>>]
    [] w = "ESC[?1049l" -> [t EXCEPT !.altscreen = <<0>>]
    [] w = "ESC[?25h" -> [t EXCEPT !.cursorvis = <<1>>]
    [] w = "ESC[?25l" -> [t EXCEPT !.cursorvis = <<0>>]
    [] w = "ESC[?1002hESC[?1006h" -> [t EXCEPT !.mouse = <<1>>]
    [] w = "ESC[?1002lESC[?1006l" -> [t EXCEPT !.mouse = <<0>>]
    [] w = "ESC=" -> [t EXCEPT !.keypad = <<1>>]
    [] w = "ESC>" -> [t EXCEPT !.keypad = <<0>>]
    [] IsRegionSet(w) -> [t EXCEPT !.region = "set"]
    [] IsRegionReset(w) -> [t EXCEPT !.region = "full"]
    [] IsMarginSet(w) -> [t EXCEPT !.margins = "set"]
    [] IsMarginReset(w) -> [t EXCEPT !.margins = "full"]
    [] OTHER -> t

RECURSIVE TermRun(_, _)
TermRun(t, ws) == IF ws = <<>> THEN t ELSE TermRun(TermApply(t, Head(ws)), Tail(ws))

Modes == {"altscreen", "cursorvis", "mouse", "keypad"}

Default == [altscreen |-> 0, cursorvis |-> 1, mouse |-> 0, keypad |-> 0]

ModeOf == [ALTSCREEN |-> "altscreen", CURSORVIS |-> "cursorvis",
           MOUSE |-> "mouse", KEYPAD_APP |-> "keypad"]

Snapshot == [mode |-> mode, cap |-> cap, applied |-> applied,
             requested |-> requested, stopped |-> pre.stopped]

-----------------------------------------------------------------------------
(* Inputs *)

Values == 0 .. MaxValue

Shifts == (0 - MaxShift) .. MaxShift

Keys ==
  [type : {"MODEREPORT"}, initial : {"?", ""}, mode : {69, 25}, value : 0 .. 4]
  \cup {[type |-> "UNICODE", initial |-> "", mode |-> 0, value |-> 0]}

Texts == {"", "t"}

Rects == [top : 0 .. MaxTop, left : 0 .. MaxLeft, lines : 1 .. MaxLines,
          cols : 1 .. MaxCols]

Counts == -1 .. MaxCount

(* a line or column, -1 for one not given *)
Coords == -1 .. MaxCoord

(* pens: colours at the edges of the four encodings, alt-fonts at the edges *)
(* of 0..9, booleans                                                        *)
PenValues(attr) ==
  IF attr \in {"fg", "bg"} THEN {-1, 0, 7, 8, 15, 16, 255}
  ELSE IF attr = "altfont" THEN {-1, 0, 9, 10}
  ELSE {0, 1}

PenOptions(attr) == {<<>>} \cup {<<v>> : v \in PenValues(attr)}

(* every pair of colours and every alt-font, with the five boolean *)
(* attributes absent, all off or all on                             *)
ColourDeltas ==
  {[fg |-> f, bg |-> b, bold |-> o, under |-> o, italic |-> o,
    reverse |-> o, strike |-> o, altfont |-> a] :
     f \in PenOptions("fg"), b \in PenOptions("bg"),
     o \in PenOptions("bold"), a \in PenOptions("altfont")}

(* every combination of the boolean attributes and every alt-font, with *)
(* each colour absent or an indexed one                                 *)
AttrDeltas ==
  {[fg |-> f, bg |-> b, bold |-> bo, under |-> u, italic |-> i,
    reverse |-> r, strike |-> s, altfont |-> a] :
     f \in {<<>>, <<255>>}, b \in {<<>>, <<16>>},
     bo \in PenOptions("bold"), u \in PenOptions("under"),
     i \in PenOptions("italic"), r \in PenOptions("reverse"),
     s \in PenOptions("strike"), a \in PenOptions("altfont")}

Deltas == ColourDeltas \cup AttrDeltas

EmptyPen == [fg |-> <<>>, bg |-> <<>>, bold |-> <<>>, under |-> <<>>,
             italic |-> <<>>, reverse |-> <<>>, strike |-> <<>>,
             altfont |-> <<>>]

(* the pens before the change: nothing set, or bold *)
PrevPens == {EmptyPen, [EmptyPen EXCEPT !.bold = <<1>>]}

(* the pen after the change: delta's attributes over the previous pen's *)
FinalPen(prev, delta) ==
  [a \in DOMAIN prev |-> IF delta[a] # <<>> THEN delta[a] ELSE prev[a]]

-----------------------------------------------------------------------------
(* The state after construction *)

Init ==
  \E ti_ok \in BOOLEAN, ti_bce \in {0, 1}, cb \in {0, 1}, kp \in {0, 1},
     tc \in {MaxCols - 1, MaxCols} :
    LET xd == new(ti_ok, ti_bce, cb, kp)
        t0 == [altscreen |-> <<>>, cursorvis |-> <<>>, mouse |-> <<>>,
               keypad |-> <<>>, region |-> "full", margins |-> "full"]
        r0 == [c \in RequestCtls |-> <<>>]
    IN  /\ mode = xd.mode
        /\ cap = xd.cap
        /\ term_cols = tc
        /\ call = [op |-> "new"]
        /\ out = <<>>
        /\ ret = <<>>
        /\ applied = t0
        /\ requested = r0
        /\ pre = [mode |-> xd.mode, cap |-> xd.cap, applied |-> t0,
                  requested |-> r0, stopped |-> FALSE]

(* The call returned: the core takes the bytes and the return value. *)
Flush ==
  /\ call.op # "none"
  /\ call' = [op |-> "none"]
  /\ out' = <<>>
  /\ ret' = <<>>
  /\ pre' = [Snapshot EXCEPT !.stopped = (call.op = "stop")]
  /\ UNCHANGED <<mode, cap, term_cols, applied, requested>>

SetctlInt ==
  /\ call.op = "none"
  /\ \E ctl \in AllCtls, value \in Values :
       LET r == setctl_int([mode |-> mode, cap |-> cap], <<>>, ctl, value)
       IN  /\ call' = [op |-> "setctl_int", ctl |-> ctl, value |-> value]
           /\ mode' = r.xd.mode
           /\ cap' = r.xd.cap
           /\ out' = r.out
           /\ ret' = <<r.ret>>
           /\ applied' = TermRun(applied, r.out)
           /\ requested' = IF ctl \in RequestCtls
                           THEN [requested EXCEPT ![ctl] = <<Bool(value)>>]
                           ELSE requested
  /\ pre' = Snapshot
  /\ UNCHANGED term_cols

SetctlStr ==
  /\ call.op = "none"
  /\ \E ctl \in AllCtls, value \in Texts :
       LET r == setctl_str(<<>>, ctl, value)
       IN  /\ call' = [op |-> "setctl_str", ctl |-> ctl, value |-> value]
           /\ out' = r.out
           /\ ret' = <<r.ret>>
           /\ applied' = TermRun(applied, r.out)
  /\ pre' = Snapshot
  /\ UNCHANGED <<mode, cap, term_cols, requested>>

Start ==
  /\ call.op = "none"
  /\ call' = [op |-> "start"]
  /\ out' = start(<<>>)
  /\ ret' = <<>>
  /\ applied' = TermRun(applied, out')
  /\ pre' = Snapshot
  /\ UNCHANGED <<mode, cap, term_cols, requested>>

Gotkey ==
  /\ call.op = "none"
  /\ \E key \in Keys :
       LET xd == gotkey([mode |-> mode, cap |-> cap], key)
       IN  /\ call' = [op |-> "gotkey", key |-> key]
           /\ mode' = xd.mode
           /\ cap' = xd.cap
  /\ out' = <<>>
  /\ ret' = <<>>
  /\ pre' = Snapshot
  /\ UNCHANGED <<term_cols, applied, requested>>

(* stop's calls of setctl_int are requests like any other *)
Stop ==
  /\ call.op = "none"
  /\ LET r == stop([mode |-> mode, cap |-> cap], <<>>)
     IN  /\ call' = [op |-> "stop"]
         /\ mode' = r.xd.mode
         /\ cap' = r.xd.cap
         /\ out' = r.out
         /\ applied' = TermRun(applied, r.out)
  /\ ret' = <<>>
  /\ requested' =
       [c \in RequestCtls |->
          IF c = "MOUSE" /\ mode.mouse # 0 THEN <<0>>
          ELSE IF c = "CURSORVIS" /\ mode.cursorvis = 0 THEN <<1>>
          ELSE IF c = "ALTSCREEN" /\ mode.altscreen # 0 THEN <<0>>
          ELSE IF c = "KEYPAD_APP" /\ mode.keypad # 0 THEN <<0>>
          ELSE requested[c]]
  /\ pre' = Snapshot
  /\ UNCHANGED term_cols

(* scrollrect for the rectangles in rects and the displacements in shifts *)
ScrollrectOn(rects, shifts) ==
  /\ call.op = "none"
  /\ \E rect \in rects, downward \in shifts, rightward \in shifts :
       LET top == rect.top
           left == rect.left
           lines == rect.lines
           cols == rect.cols
           r == scrollrect([mode |-> mode, cap |-> cap], term_cols, <<>>,
                           top, left, lines, cols, downward, rightward)
       IN  /\ call' = [op |-> "scrollrect", top |-> top, left |-> left,
                       lines |-> lines, cols |-> cols,
                       downward |-> downward, rightward |-> rightward]
           /\ out' = r.out
           /\ ret' = <<r.ret>>
           /\ applied' = TermRun(applied, r.out)
  /\ pre' = Snapshot
  /\ UNCHANGED <<mode, cap, term_cols, requested>>

Scrollrect == ScrollrectOn(Rects, Shifts)

(* erasech for the counts in counts *)
ErasechOn(counts) ==
  /\ call.op = "none"
  /\ \E count \in counts, moveend \in {-1, 0, 1}, reverse \in {0, 1} :
       /\ call' = [op |-> "erasech", count |-> count, moveend |-> moveend,
                   reverse |-> reverse]
       /\ out' = erasech([mode |-> mode, cap |-> cap], reverse, <<>>, count,
                         moveend)
  /\ ret' = <<>>
  /\ applied' = TermRun(applied, out')
  /\ pre' = Snapshot
  /\ UNCHANGED <<mode, cap, term_cols, requested>>

Erasech == ErasechOn(Counts)

(* chpen for the deltas in deltas *)
ChpenOn(deltas) ==
  /\ call.op = "none"
  /\ \E delta \in deltas, prev \in PrevPens :
       LET final == FinalPen(prev, delta)
       IN  /\ call' = [op |-> "chpen", delta |-> delta, final |-> final]
           /\ out' = chpen(<<>>, delta, final)
  /\ ret' = <<>>
  /\ applied' = TermRun(applied, out')
  /\ pre' = Snapshot
  /\ UNCHANGED <<mode, cap, term_cols, requested>>

Chpen == ChpenOn(Deltas)

(* goto_abs for the lines and columns in coords *)
GotoAbsOn(coords) ==
  /\ call.op = "none"
  /\ \E line \in coords, col \in coords :
       /\ call' = [op |-> "goto_abs", line |-> line, col |-> col]
       /\ out' = goto_abs(<<>>, line, col)
  /\ ret' = <<>>
  /\ applied' = TermRun(applied, out')
  /\ pre' = Snapshot
  /\ UNCHANGED <<mode, cap, term_cols, requested>>

GotoAbs == GotoAbsOn(Coords)

(* move_rel for the displacements in shifts *)
MoveRelOn(shifts) ==
  /\ call.op = "none"
  /\ \E downward \in shifts, rightward \in shifts :
       /\ call' = [op |-> "move_rel", downward |-> downward,
                   rightward |-> rightward]
       /\ out' = move_rel(<<>>, downward, rightward)
  /\ ret' = <<>>
  /\ applied' = TermRun(applied, out')
  /\ pre' = Snapshot
  /\ UNCHANGED <<mode, cap, term_cols, requested>>

MoveRel == MoveRelOn(Shifts)

PrintStr ==
  /\ call.op = "none"
  /\ \E str \in Texts :
       /\ call' = [op |-> "print", str |-> str]
       /\ out' = print(<<>>, str)
  /\ ret' = <<>>
  /\ applied' = TermRun(applied, out')
  /\ pre' = Snapshot
  /\ UNCHANGED <<mode, cap, term_cols, requested>>

Clear ==
  /\ call.op = "none"
  /\ call' = [op |-> "clear"]
  /\ out' = clear(<<>>)
  /\ ret' = <<>>
  /\ applied' = TermRun(applied, out')
  /\ pre' = Snapshot
  /\ UNCHANGED <<mode, cap, term_cols, requested>>

-----------------------------------------------------------------------------
(* Specifications *)

(* the controls and the lifecycle *)
Next == SetctlInt \/ SetctlStr \/ Start \/ Gotkey \/ Stop \/ Flush

Spec == Init /\ [][Next]_vars

(* scrolling, with the negotiation that decides its strategy *)
NextScroll == Start \/ Gotkey \/ Scrollrect \/ Flush

SpecScroll == Init /\ [][NextScroll]_vars

(* erasing *)
NextErase == Erasech \/ Flush

SpecErase == Init /\ [][NextErase]_vars

(* changing the pen *)
NextPen == Chpen \/ Flush

(* moving the cursor *)
NextCursor == GotoAbs \/ MoveRel \/ Flush

SpecCursor == Init /\ [][NextCursor]_vars

(* every operation of the driver, the encoders on a few of their inputs *)
FewRects == {[top |-> 0, left |-> 0, lines |-> 1, cols |-> MaxCols],
             [top |-> MaxTop, left |-> MaxLeft, lines |-> MaxLines, cols |-> 1]}

FewShifts == {-1, 1}

FewCoords == {-1, 0, MaxCoord}

FewCounts == {1, MaxCount}

FewDeltas == {EmptyPen, [EmptyPen EXCEPT !.fg = <<-1>>],
              [EmptyPen EXCEPT !.bg = <<7>>, !.reverse = <<1>>]}

NextAll ==
  \/ PrintStr \/ GotoAbsOn(FewCoords) \/ MoveRelOn(FewShifts)
  \/ ScrollrectOn(FewRects, FewShifts)
  \/ ErasechOn(FewCounts) \/ Clear \/ ChpenOn(FewDeltas)
  \/ SetctlInt \/ SetctlStr \/ Start \/ Gotkey \/ Stop \/ Flush

SpecAll == Init /\ [][NextAll]_vars

SpecPen == Init /\ [][NextPen]_vars

-----------------------------------------------------------------------------
(* Vocabulary of the properties *)

(* the enable (v = 1) and disable (v = 0) sequence of a de-duplicated control *)
CtlSeq(ctl, v) ==
  CASE ctl = "ALTSCREEN" -> IF v = 1 THEN "ESC[?1049h" ELSE "ESC[?1049l"
    [] ctl = "CURSORVIS" -> IF v = 1 THEN "ESC[?25h" ELSE "ESC[?25l"
    [] ctl = "MOUSE" -> IF v = 1 THEN "ESC[?1002hESC[?1006h" ELSE "ESC[?1002lESC[?1006l"
    [] ctl = "KEYPAD_APP" -> IF v = 1 THEN "ESC=" ELSE "ESC>"

(* the sequence that puts a mode back to its default *)
RestoreSeq == [mouse |-> "ESC[?1002lESC[?1006l", cursorvis |-> "ESC[?25h",
               altscreen |-> "ESC[?1049l", keypad |-> "ESC>"]

StopOrder == <<"mouse", "cursorvis", "altscreen", "keypad">>

(* how often the write w occurs in the writes ws *)
Count(ws, w) == Cardinality({i \in 1 .. Len(ws) : ws[i] = w})

(* a mode report saying that DEC private mode 69 is set (1) or permanently set (3) *)
IsSetReport(key) ==
  /\ key.type = "MODEREPORT"
  /\ key.initial = "?"
  /\ key.mode = 69
  /\ key.value \in {1, 3}

(* the character command the specification gives for a horizontal shift *)
CharCmd(rightward) ==
  IF rightward > 1 THEN "ESC[" \o Dec(rightward) \o "P"
  ELSE IF rightward = 1 THEN "ESC[P"
  ELSE IF rightward = -1 THEN "ESC[@"
  ELSE "ESC[" \o Dec(-rightward) \o "@"

IsScroll == call.op = "scrollrect"

FullWidth == call.left = 0 /\ call.cols = term_cols

RightAligned == call.left + call.cols = term_cols

-----------------------------------------------------------------------------
(* C1: in every reachable state each of the four mode flags (altscreen,    *)
(* cursorvis, mouse, keypad) equals the value of the last sequence written *)
(* for that mode, or the mode's default while none was written.            *)
C1_FlagsReflectEmitted ==
  \A m \in Modes :
    mode[m] = IF applied[m] = <<>> THEN Default[m] ELSE applied[m][1]

(* C2: when stop() has returned, for each of the four modes the last       *)
(* sequence written for it is the restoring one, or none was ever written. *)
C2_StopLeavesDefaults ==
  call.op = "stop" =>
    \A m \in Modes : applied[m] = <<>> \/ applied[m] = <<Default[m]>>

(* C3: stop() writes exactly the restore sequences of the modes whose flag *)
(* differs from its default when stop() is called, in the order mouse,     *)
(* cursor visibility, alternate screen, keypad, and nothing else.          *)
C3_StopOrder ==
  call.op = "stop" =>
    LET Differs(m) == pre.mode[m] # Default[m]
        sel == SelectSeq(StopOrder, Differs)
    IN  out = [i \in 1 .. Len(sel) |-> RestoreSeq[sel[i]]]

C3_Witness ==
  /\ call.op = "stop"
  /\ \A m \in Modes : pre.mode[m] # Default[m]
  /\ Len(out) = 4

(* C4: a setctl_int call for a de-duplicated control returns handled; it   *)
(* writes nothing when its truth value equals that of the previous request *)
(* for the control (the default if there was none), and writes the         *)
(* enable/disable sequence exactly once when it differs.                   *)
C4_Dedup ==
  (call.op = "setctl_int" /\ call.ctl \in DedupCtls) =>
    LET prev == IF pre.requested[call.ctl] = <<>>
                THEN Default[ModeOf[call.ctl]]
                ELSE pre.requested[call.ctl][1]
        v == Bool(call.value)
    IN  /\ ret = <<1>>
        /\ out = IF v = prev THEN <<>> ELSE <<CtlSeq(call.ctl, v)>>

(* C5: scroll-margins-supported (cap.slrm) is false after construction and *)
(* no call ever takes it from true to false.                               *)
C5_SlrmLatch ==
  /\ cap.slrm \in {0, 1}
  /\ call.op = "new" => cap.slrm = 0
  /\ pre.cap.slrm = 1 => cap.slrm = 1

C5_Witness ==
  /\ call.op = "gotkey"
  /\ call.key.type = "MODEREPORT" /\ call.key.initial = "?"
  /\ call.key.mode = 69 /\ call.key.value = 4
  /\ pre.cap.slrm = 1
  /\ cap.slrm = 1

(* C6: gotkey sets scroll-margins-supported exactly for a mode report of   *)
(* DEC private mode 69 with status 1 (set) or 3 (permanently set); every   *)
(* other event leaves the flag as it was.                                  *)
C6_UpgradeOnSetReport ==
  call.op = "gotkey" =>
    cap.slrm = IF IsSetReport(call.key) THEN 1 ELSE pre.cap.slrm

(* C7: a scrollrect that returns false wrote nothing and changed no driver *)
(* state; and it returns false whenever margins are unsupported, the       *)
(* rectangle's right edge is not the terminal's, height > 1 and right # 0. *)
C7_DeclineIsSilent ==
  IsScroll =>
    /\ ret = <<0>> =>
         /\ out = <<>>
         /\ mode = pre.mode /\ cap = pre.cap /\ applied = pre.applied
    /\ ( /\ pre.cap.slrm = 0
         /\ ~RightAligned
         /\ call.lines > 1
         /\ call.rightward # 0 ) => ret = <<0>>

C7_Witness ==
  /\ IsScroll
  /\ pre.cap.slrm = 0 /\ ~RightAligned /\ call.lines > 1
  /\ call.rightward # 0 /\ call.downward = 0
  /\ ret = <<0>> /\ out = <<>>

(* C8 as claimed: scrollrect returns false only when margins are           *)
(* unsupported, the rectangle is partial-width with its right edge not the *)
(* terminal's, and right # 0.                                              *)
C8_DeclineOnlyStep4 ==
  (IsScroll /\ ret = <<0>>) =>
    /\ pre.cap.slrm = 0
    /\ ~FullWidth
    /\ ~RightAligned
    /\ call.rightward # 0

(* C8 amended: scrollrect returns false exactly when the displacement is   *)
(* not null, margins are unsupported, and the request is neither a purely  *)
(* horizontal one (down = 0) on a rectangle reaching the terminal's right  *)
(* edge nor a purely vertical one (right = 0) on a full-width rectangle.   *)
C8_DeclineExactly ==
  IsScroll =>
    /\ ret \in {<<0>>, <<1>>}
    /\ ret = <<0>> <=>
         /\ call.downward # 0 \/ call.rightward # 0
         /\ pre.cap.slrm = 0
         /\ ~(call.downward = 0 /\ RightAligned)
         /\ ~(call.rightward = 0 /\ FullWidth)

C8_Witness ==
  /\ IsScroll
  /\ call.rightward = 0 /\ call.downward # 0
  /\ RightAligned /\ ~FullWidth
  /\ pre.cap.slrm = 0
  /\ ret = <<0>>

(* C9: in the single-axis horizontal strategy (down = 0) every row gets a  *)
(* character-delete command (ESC[P, ESC[nP) when right > 0 and a           *)
(* character-insert command (ESC[@, ESC[n@) when right < 0, sized |right|. *)
C9_HorizontalDirection ==
  ( /\ IsScroll
    /\ call.downward = 0 /\ call.rightward # 0
    /\ (pre.cap.slrm = 1 /\ call.lines = 1) \/ RightAligned ) =>
    Count(out, CharCmd(call.rightward)) = call.lines

(* C10: every scrollrect call writes as many margin resets (ESC[s) as      *)
(* margin sets and as many region resets (ESC[r) as region sets, 0 or 1 of *)
(* each, every set before its reset; so the terminal's scroll region and   *)
(* margins are full-screen after every call.                               *)
C10_ScrollStateRestored ==
  /\ applied.region = "full"
  /\ applied.margins = "full"
  /\ IsScroll =>
       LET ms == {i \in 1 .. Len(out) : IsMarginSet(out[i])}
           mr == {i \in 1 .. Len(out) : IsMarginReset(out[i])}
           rs == {i \in 1 .. Len(out) : IsRegionSet(out[i])}
           rr == {i \in 1 .. Len(out) : IsRegionReset(out[i])}
       IN  /\ Cardinality(ms) = Cardinality(mr) /\ Cardinality(ms) <= 1
           /\ Cardinality(rs) = Cardinality(rr) /\ Cardinality(rs) <= 1
           /\ \A i \in ms : \E j \in mr : j > i
           /\ \A i \in rs : \E j \in rr : j > i

C10_Witness ==
  /\ IsScroll
  /\ call.lines > 1
  /\ \E i \in 1 .. Len(out) : IsMarginSet(out[i])
  /\ \E i \in 1 .. Len(out) : IsRegionSet(out[i])
  /\ out[Len(out)] = "ESC[s"

-----------------------------------------------------------------------------
(* Reading the cursor movement of a write *)

DigitVal(c) ==
  CASE c = "0" -> 0 [] c = "1" -> 1 [] c = "2" -> 2 [] c = "3" -> 3
    [] c = "4" -> 4 [] c = "5" -> 5 [] c = "6" -> 6 [] c = "7" -> 7
    [] c = "8" -> 8 [] c = "9" -> 9

RECURSIVE ParseNat(_)
ParseNat(s) ==
  IF s = "" THEN 0
  ELSE ParseNat(SubSeq(s, 1, Len(s) - 1)) * 10
         + DigitVal(SubSeq(s, Len(s), Len(s)))

IsBlanks(w) == Len(w) > 0 /\ w = Spaces(Len(w))

IsECH(w) == w = "ESC[X" \/ IsCSI(w, "X")

(* columns the cursor moves right by the write w: blanks advance it, *)
(* ESC[nC moves right, ESC[nD moves left                              *)
ColumnsOf(w) ==
  IF IsBlanks(w) THEN Len(w)
  ELSE IF w = "ESC[C" THEN 1
  ELSE IF w = "ESC[D" THEN -1
  ELSE IF IsCSI(w, "C") THEN ParseNat(SubSeq(w, 5, Len(w) - 1))
  ELSE IF IsCSI(w, "D") THEN 0 - ParseNat(SubSeq(w, 5, Len(w) - 1))
  ELSE 0

RECURSIVE ColumnsMoved(_)
ColumnsMoved(ws) ==
  IF ws = <<>> THEN 0 ELSE ColumnsOf(Head(ws)) + ColumnsMoved(Tail(ws))

RECURSIVE BlanksWritten(_)
BlanksWritten(ws) ==
  IF ws = <<>> THEN 0
  ELSE (IF IsBlanks(Head(ws)) THEN Len(Head(ws)) ELSE 0) + BlanksWritten(Tail(ws))

IsErase == call.op = "erasech"

(* erasech takes the hardware erase: bce and the pen not in reverse video *)
HardwareErase == pre.cap.bce = 1 /\ call.reverse = 0

-----------------------------------------------------------------------------
(* C11: in erasech's overwrite path with move_past false, for every        *)
(* count >= 1 the blanks written and the trailing move left cancel: the    *)
(* cursor's column after the call is its column before it.                 *)
C11_EraseKeepsColumn ==
  (IsErase /\ ~HardwareErase /\ call.moveend = 0 /\ call.count >= 1) =>
    /\ BlanksWritten(out) = call.count
    /\ ColumnsMoved(out) = 0

(* C12: erasech writes nothing when count < 1; for count >= 1 it writes    *)
(* the erase-characters command (ESC[X for 1, ESC[nX otherwise) exactly    *)
(* when bce is true and the pen is not reverse video, and otherwise writes *)
(* count blanks over all chunks and no erase-characters command.           *)
C12_EraseChoice ==
  IsErase =>
    /\ call.count < 1 => out = <<>>
    /\ call.count >= 1 =>
         LET ech == IF call.count = 1 THEN "ESC[X"
                    ELSE "ESC[" \o Dec(call.count) \o "X"
         IN  /\ HardwareErase =>
                  /\ out[1] = ech
                  /\ Count(out, ech) = 1
                  /\ BlanksWritten(out) = 0
             /\ ~HardwareErase =>
                  /\ \A i \in 1 .. Len(out) : ~IsECH(out[i])
                  /\ BlanksWritten(out) = call.count

C12_Witness ==
  /\ IsErase
  /\ ~HardwareErase
  /\ pre.cap.bce = 1 /\ call.reverse = 1
  /\ call.count = 128
  /\ BlanksWritten(out) = 128
  /\ Len(out) >= 2

-----------------------------------------------------------------------------
(* The reference encoding of a delta: kinds in the fixed order with their  *)
(* (on, off) codes                                                         *)

RefTable ==
  << <<"fg", 30, 39>>, <<"bg", 40, 49>>, <<"bold", 1, 22>>,
     <<"under", 4, 24>>, <<"italic", 3, 23>>, <<"reverse", 7, 27>>,
     <<"strike", 9, 29>>, <<"altfont", 10, 10>> >>

RefOne(kind, on, off, v) ==
  IF kind \in {"fg", "bg"}
  THEN IF v < 0 THEN <<off>>
       ELSE IF v \in 0 .. 7 THEN <<on + v>>
       ELSE IF v \in 8 .. 15 THEN <<on + 60 + (v - 8)>>
       ELSE <<on + 8, 5, v>>
  ELSE IF kind = "altfont"
  THEN IF v \in 0 .. 9 THEN <<on + v>> ELSE <<off>>
  ELSE IF v # 0 THEN <<on>> ELSE <<off>>

RECURSIVE RefParams(_, _)
RefParams(i, delta) ==
  IF i > Len(RefTable) THEN <<>>
  ELSE LET e == RefTable[i]
       IN  (IF delta[e[1]] = <<>> THEN <<>>
            ELSE RefOne(e[1], e[2], e[3], delta[e[1]][1]))
           \o RefParams(i + 1, delta)

RECURSIVE Join(_)
Join(ps) ==
  IF Len(ps) = 0 THEN ""
  ELSE IF Len(ps) = 1 THEN Dec(ps[1])
  ELSE Dec(ps[1]) \o ";" \o Join(Tail(ps))

(* the number of parameters of a control sequence: its semicolons plus one *)
ParamCount(w) ==
  Cardinality({i \in 1 .. Len(w) : SubSeq(w, i, i) = ";"}) + 1

IsChpen == call.op = "chpen"

DeltaEmpty == \A a \in DOMAIN call.delta : call.delta[a] = <<>>

-----------------------------------------------------------------------------
(* C13: chpen writes nothing exactly when delta is empty; with a non-empty *)
(* delta it writes the bare reset ESC[m exactly when final_state has no    *)
(* non-default attribute, and otherwise one attribute-set command with     *)
(* parameters.                                                             *)
C13_ChpenForms ==
  IsChpen =>
    /\ out = <<>> <=> DeltaEmpty
    /\ ~DeltaEmpty =>
         /\ Len(out) = 1
         /\ out = <<"ESC[m">> <=> ~tickit_pen_is_nondefault(call.final)
         /\ tickit_pen_is_nondefault(call.final) =>
              /\ IsCSI(out[1], "m")
              /\ out[1] = "ESC[" \o Join(RefParams(1, call.delta)) \o "m"

C13_Witness ==
  /\ IsChpen
  /\ call.delta = [EmptyPen EXCEPT !.fg = <<-1>>]
  /\ call.final = [EmptyPen EXCEPT !.fg = <<-1>>, !.bold = <<1>>]
  /\ out = <<"ESC[39m">>

(* C14: for every delta with a non-default final_state the parameters      *)
(* chpen writes are the reference list, built in the order foreground,     *)
(* background, bold, underline, italic, reverse, strike, alt-font from the *)
(* (on, off) table, and they are never more than 12.                       *)
C14_ChpenParams ==
  (IsChpen /\ ~DeltaEmpty /\ tickit_pen_is_nondefault(call.final)) =>
    /\ out = <<"ESC[" \o Join(RefParams(1, call.delta)) \o "m">>
    /\ ParamCount(out[1]) = Len(RefParams(1, call.delta))
    /\ ParamCount(out[1]) <= 12

C14_Witness ==
  /\ IsChpen
  /\ call.delta = [fg |-> <<255>>, bg |-> <<16>>, bold |-> <<1>>,
                   under |-> <<0>>, italic |-> <<1>>, reverse |-> <<0>>,
                   strike |-> <<1>>, altfont |-> <<9>>]
  /\ ParamCount(out[1]) = 12
  /\ out = <<"ESC[38;5;255;48;5;16;1;24;3;27;9;19m">>

-----------------------------------------------------------------------------
(* C15: goto_abs writes ESC[{line+1};{col+1}H when both are given and      *)
(* col > 0, ESC[{line+1}H when line is given and col = 0, ESC[{line+1}d    *)
(* when only line is given, ESC[{col+1}G when only col > 0 is given, ESC[G *)
(* when only col = 0 is given, and nothing when neither is given.          *)
C15_GotoAbsTable ==
  call.op = "goto_abs" =>
    LET l == call.line
        c == call.col
    IN  out =
          CASE l # -1 /\ c > 0 ->
                 <<"ESC[" \o Dec(l + 1) \o ";" \o Dec(c + 1) \o "H">>
            [] l # -1 /\ c = 0 -> <<"ESC[" \o Dec(l + 1) \o "H">>
            [] l # -1 /\ c = -1 -> <<"ESC[" \o Dec(l + 1) \o "d">>
            [] l = -1 /\ c > 0 -> <<"ESC[" \o Dec(c + 1) \o "G">>
            [] l = -1 /\ c = 0 -> <<"ESC[G">>
            [] l = -1 /\ c = -1 -> <<>>

C15_Witness ==
  /\ call.op = "goto_abs"
  /\ call.line = 9 /\ call.col = 0
  /\ out = <<"ESC[10H">>

-----------------------------------------------------------------------------
(* C16: setctl_int and setctl_str called with a control they do not        *)
(* recognise return 0, write nothing and leave every mode and capability   *)
(* flag as it was; called with a control they recognise they return 1.     *)
C16_UnknownControl ==
  /\ call.op = "setctl_int" =>
       IF call.ctl \in IntCtls
       THEN ret = <<1>>
       ELSE ret = <<0>> /\ out = <<>> /\ mode = pre.mode /\ cap = pre.cap
  /\ call.op = "setctl_str" =>
       IF call.ctl \in StrCtls
       THEN ret = <<1>>
       ELSE ret = <<0>> /\ out = <<>> /\ mode = pre.mode /\ cap = pre.cap

C16_Witness ==
  /\ call.op = "setctl_str"
  /\ call.ctl = "MOUSE"
  /\ pre.mode.mouse = 1
  /\ ret = <<0>> /\ out = <<>>

-----------------------------------------------------------------------------
(* the flag that each control of setctl_int owns *)
FlagOf == [ALTSCREEN |-> "altscreen", CURSORVIS |-> "cursorvis",
           CURSORBLINK |-> "cursorblink", MOUSE |-> "mouse",
           KEYPAD_APP |-> "keypad"]

Encoders == {"print", "goto_abs", "move_rel", "scrollrect", "erasech",
             "clear", "chpen", "setctl_str", "start"}

(* C17: cap.bce keeps its value through every call; cap.slrm changes only  *)
(* in gotkey; a mode flag changes only in setctl_int for its own control   *)
(* or in stop; print, goto_abs, move_rel, scrollrect, erasech, clear,      *)
(* chpen, setctl_str and start leave every mode and capability flag as it  *)
(* was.                                                                    *)
C17_Frame ==
  /\ cap.bce = pre.cap.bce
  /\ cap.slrm # pre.cap.slrm => call.op = "gotkey"
  /\ \A m \in DOMAIN mode :
       mode[m] # pre.mode[m] =>
         \/ /\ call.op = "setctl_int"
            /\ call.ctl \in DOMAIN FlagOf
            /\ FlagOf[call.ctl] = m
         \/ call.op = "stop"
  /\ call.op \in Encoders => mode = pre.mode /\ cap = pre.cap

C17_Witness ==
  /\ call.op = "scrollrect"
  /\ out # <<>>
  /\ cap.slrm = 1 /\ cap.bce = 0
  /\ mode.mouse = 1 /\ mode.altscreen = 1 /\ mode.cursorvis = 0
  /\ mode.cursorblink = 1

(* C18: setctl_int(CURSORBLINK, v) writes its sequence, and nothing else,  *)
(* on every call, also when v repeats the value requested before; once a   *)
(* CURSORBLINK request was made, setctl_int(CURSORSHAPE, s) writes          *)
(* ESC[{c} q with c = 2s - 1 if the last such request was non-zero and     *)
(* c = 2s if it was zero.                                                  *)
C18_BlinkAndShape ==
  /\ (call.op = "setctl_int" /\ call.ctl = "CURSORBLINK") =>
       out = <<IF call.value # 0 THEN "ESC[?12h" ELSE "ESC[?12l">>
  /\ (/\ call.op = "setctl_int"
      /\ call.ctl = "CURSORSHAPE"
      /\ pre.requested["CURSORBLINK"] # <<>>) =>
       out = <<"ESC[" \o
               Dec(IF pre.requested["CURSORBLINK"] = <<1>>
                   THEN 2 * call.value - 1 ELSE 2 * call.value)
               \o " q">>

C18_Witness ==
  /\ call.op = "setctl_int"
  /\ call.ctl = "CURSORBLINK"
  /\ call.value = 2
  /\ pre.requested["CURSORBLINK"] = <<1>>
  /\ out = <<"ESC[?12h">>

(* a column insert or delete of the margin mode: ESC[..'~ or ESC[..'} *)
IsColumnShift(w) ==
  /\ Len(w) > 5
  /\ SubSeq(w, 1, 4) = "ESC["
  /\ SubSeq(w, Len(w) - 1, Len(w)) \in {"'~", "'}"}

NeedsMargins(w) ==
  IsMarginSet(w) \/ IsMarginReset(w) \/ IsColumnShift(w)

(* C19: a scrollrect called while cap.slrm is false writes no margin set   *)
(* or reset and no margin-mode column insert or delete; no other call      *)
(* writes one either.                                                      *)
C19_NoMarginsUnsupported ==
  \A i \in 1 .. Len(out) :
    NeedsMargins(out[i]) => IsScroll /\ pre.cap.slrm = 1

C19_Witness ==
  /\ IsScroll
  /\ pre.cap.slrm = 0
  /\ call.lines = 1
  /\ call.left + call.cols < term_cols
  /\ call.downward = 0 /\ call.rightward = 2
  /\ ret = <<0>> /\ out = <<>>

(* C20: a stop called directly after a stop writes nothing and changes no  *)
(* flag, and a stop on an instance whose controls were never requested     *)
(* writes nothing.  (Requests for CURSORSHAPE and for unrecognised         *)
(* controls leave no trace in the instance, so they are not distinguished  *)
(* from no request.)                                                       *)
C20_StopIdempotent ==
  call.op = "stop" =>
    /\ pre.stopped => out = <<>> /\ mode = pre.mode /\ cap = pre.cap
    /\ (\A c \in RequestCtls : pre.requested[c] = <<>>) => out = <<>>

====
